---------------------------- MODULE Spec2Model ----------------------------
(***************************************************************************)
(* Model of the pet-walk weather service (src/main.py and its reduced      *)
(* copy src/pet-weather-api/main.py): payload normalisation, air quality   *)
(* classification, the safety rule chain and the /check-weather handler.   *)
(*                                                                         *)
(* Numbers are fixed point:                                                *)
(*   temperatures      hundredths of a kelvin / of a degree Celsius        *)
(*   wind speed        1/900 m/s (so that 40 km/h = 100/9 m/s is a value)  *)
(*   wind in km/h      thousandths of a km/h                               *)
(*   precipitation     tenths of a millimetre                              *)
(*   concentrations    whole micrograms per cubic metre                    *)
(* Python dicts are functions whose DOMAIN is the set of keys present,     *)
(* Python lists are sequences.                                             *)
(***************************************************************************)
EXTENDS Integers, Sequences, FiniteSets, TLC

VARIABLES op, args, ret, exit

vars == <<op, args, ret, exit>>

-----------------------------------------------------------------------------
(* Bounds of the explored inputs *)

\* concentration levels per pollutant: 0, the four finite thresholds, then above
MaxLevel == 4
\* how many pollutants of an enumerated reading are non-zero
MaxActive == 2
\* how many paths are removed from a complete weather payload
MaxAbsent == 2
\* grid half-width around every temperature, wind and precipitation limit
Delta == 1

-----------------------------------------------------------------------------
(* Python values *)

None == [py |-> "None"]

Returned(v) == [kind |-> "return", value |-> v]
Raised(e) == [kind |-> "raise", value |-> e]

\* dict.get(key, default)
Get(d, key, default) == IF key \in DOMAIN d THEN d[key] ELSE default

\* the dict d restricted to the keys in keep
Restrict(d, keep) == [k \in (DOMAIN d) \cap keep |-> d[k]]

\* all subsets of S with at most k elements
RECURSIVE KSubsets(_, _)
KSubsets(S, k) ==
    IF k = 0 THEN {{}}
    ELSE LET prev == KSubsets(S, k - 1)
         IN  prev \cup {T \cup {x} : T \in prev, x \in S}

-----------------------------------------------------------------------------
(* classify_air_quality *)

PollutantKeys == <<"so2", "no2", "pm10", "pm2_5", "o3", "co">>
Pollutants == {PollutantKeys[i] : i \in 1..Len(PollutantKeys)}

Fin(n) == [inf |-> FALSE, v |-> n]
Inf == [inf |-> TRUE, v |-> 0]

\* iteration order of air_quality_matrix (dicts iterate in insertion order)
Categories == <<"Good", "Fair", "Moderate", "Poor", "Very Poor">>

air_quality_matrix ==
    [Good |-> [so2 |-> Fin(20), no2 |-> Fin(40), pm10 |-> Fin(20),
               pm2_5 |-> Fin(10), o3 |-> Fin(60), co |-> Fin(4400)],
     Fair |-> [so2 |-> Fin(80), no2 |-> Fin(70), pm10 |-> Fin(50),
               pm2_5 |-> Fin(25), o3 |-> Fin(100), co |-> Fin(9400)],
     Moderate |-> [so2 |-> Fin(250), no2 |-> Fin(150), pm10 |-> Fin(100),
                   pm2_5 |-> Fin(50), o3 |-> Fin(140), co |-> Fin(12400)],
     Poor |-> [so2 |-> Fin(350), no2 |-> Fin(200), pm10 |-> Fin(200),
               pm2_5 |-> Fin(75), o3 |-> Fin(180), co |-> Fin(15400)]]
    @@ ("Very Poor" :> [p \in Pollutants |-> Inf])

\* x >= limit for a finite x and a limit that may be float("inf")
GE(x, limit) == ~limit.inf /\ x >= limit.v

\* any(pollutants[pollutant] >= limit for pollutant, limit in limits.items())
AnyReaches(pollutants, quality) ==
    \E p \in Pollutants : GE(pollutants[p], air_quality_matrix[quality][p])

\* the for loop from its i-th category on, then the return after the loop
RECURSIVE ClassifyFrom(_, _, _)
ClassifyFrom(pollutants, i, fallback) ==
    IF i > Len(Categories) THEN [value |-> fallback, exit |-> "fallback"]
    ELSE IF AnyReaches(pollutants, Categories[i])
         THEN [value |-> Categories[i], exit |-> "loop"]
         ELSE ClassifyFrom(pollutants, i + 1, fallback)

\* mutant: the return after the loop gives the worst category
classify_air_quality_run_fallback_worst(pollutants) ==
    ClassifyFrom(pollutants, 1, "Very Poor")

\* mutant: the limits are upper bounds, the first category holding every
\* pollutant is returned
classify_air_quality_run_upper(pollutants) ==
    LET within == {i \in 1..Len(Categories) :
                     \A p \in Pollutants :
                        \/ air_quality_matrix[Categories[i]][p].inf
                        \/ pollutants[p] <= air_quality_matrix[Categories[i]][p].v}
    IN  IF within = {} THEN [value |-> "Good", exit |-> "fallback"]
        ELSE [value |-> Categories[CHOOSE i \in within : \A j \in within : i <= j],
              exit |-> "loop"]

\* the call with the return statement it left through
classify_air_quality_run(pollutants) == ClassifyFrom(pollutants, 1, "Good")

classify_air_quality(pollutants) == classify_air_quality_run(pollutants).value

-----------------------------------------------------------------------------
(* classify_weather *)

\* 273.15 K in hundredths of a kelvin
KelvinOffset == 27315
\* the extreme and the warning temperature limits, in whole degrees Celsius
ExtremeHigh == 35
ExtremeLow == 0 - 5
WarnHigh == 30
WarnLow == 0
\* the wind limit in km/h and the precipitation limit in mm
WindLimit == 40
PrecipLimit == 5

\* wind_speed * 3.6: 1/900 m/s to thousandths of a km/h
ToKmh(wind_speed) == (wind_speed * 36 * 1000) \div (10 * 900)

\* x / d rounded to the nearest integer, ties to even
RoundDiv(x, d) ==
    LET q == x \div d
        r == x % d
    IN  IF 2 * r < d THEN q
        ELSE IF 2 * r > d THEN q + 1
        ELSE IF q % 2 = 0 THEN q ELSE q + 1

\* f"{x:.2f}" of a temperature: hundredths are kept as they are
Fmt2Temp(c) == RoundDiv(c * 10, 10)
\* f"{wind_kmh:.2f}": thousandths of a km/h to hundredths
Fmt2Kmh(m) == RoundDiv(m, 10)

AirRule(weather_data, air_quality_category) ==
    air_quality_category \in {"Poor", "Very Poor"}

AirResult(weather_data, air_quality_category) ==
    [recommendation |-> <<"Take Precaution (Air Quality: ", air_quality_category, ")">>,
     triggered_by |-> "Air Pollution",
     value |-> [text |-> <<air_quality_category>>, nums |-> <<>>]]

ExtremeTempRule(temp_c, feels_like_c) ==
    \/ temp_c > ExtremeHigh * 100
    \/ temp_c < ExtremeLow * 100
    \/ feels_like_c > ExtremeHigh * 100
    \/ feels_like_c < ExtremeLow * 100

TempValue(temp_c, feels_like_c) ==
    [text |-> <<"", "\\u00b0C / Feels Like: ", "", "\\u00b0C">>,
     nums |-> <<Fmt2Temp(temp_c), Fmt2Temp(feels_like_c)>>]

ExtremeTempResult(temp_c, feels_like_c) ==
    [recommendation |-> <<"Do Not Go Out (Extreme Temperature)">>,
     triggered_by |-> "Temperature",
     value |-> TempValue(temp_c, feels_like_c)]

WindRule(wind_kmh) == wind_kmh > WindLimit * 1000

WindResult(wind_kmh) ==
    [recommendation |-> <<"Do Not Go Out (High Wind Speed)">>,
     triggered_by |-> "Wind Speed",
     value |-> [text |-> <<"", " km/h">>, nums |-> <<Fmt2Kmh(wind_kmh)>>]]

PrecipRule(weather_data) == weather_data["precipitation"] > PrecipLimit * 10

PrecipResult(weather_data) ==
    [recommendation |-> <<"Do Not Go Out (Heavy Rain/Snow)">>,
     triggered_by |-> "Precipitation",
     value |-> [text |-> <<"", " mm">>, nums |-> <<weather_data["precipitation"]>>]]

WarnTempRule(temp_c, feels_like_c) ==
    \/ temp_c < WarnLow * 100
    \/ temp_c > WarnHigh * 100
    \/ feels_like_c < WarnLow * 100
    \/ feels_like_c > WarnHigh * 100

WarnTempResult(temp_c, feels_like_c) ==
    [recommendation |-> <<"Take Precaution (Temperature Warning)">>,
     triggered_by |-> "Temperature",
     value |-> TempValue(temp_c, feels_like_c)]

GeneralResult ==
    [recommendation |-> <<"No Worries (Good Weather for a Walk)">>,
     triggered_by |-> "General Weather Conditions",
     value |-> [text |-> <<"All parameters within safe range">>, nums |-> <<>>]]

\* mutant: the extreme temperature test comes before the air quality test
classify_weather_temp_first(weather_data, air_quality_category) ==
    LET temp_c == weather_data["temp"] - KelvinOffset
        feels_like_c == weather_data["feels_like"] - KelvinOffset
        wind_kmh == ToKmh(weather_data["wind_speed"])
    IN  IF ExtremeTempRule(temp_c, feels_like_c)
            THEN ExtremeTempResult(temp_c, feels_like_c)
        ELSE IF AirRule(weather_data, air_quality_category)
            THEN AirResult(weather_data, air_quality_category)
        ELSE IF WindRule(wind_kmh) THEN WindResult(wind_kmh)
        ELSE IF PrecipRule(weather_data) THEN PrecipResult(weather_data)
        ELSE IF WarnTempRule(temp_c, feels_like_c)
            THEN WarnTempResult(temp_c, feels_like_c)
        ELSE GeneralResult

\* mutant: the precipitation test comes before the wind test
classify_weather_precip_first(weather_data, air_quality_category) ==
    LET temp_c == weather_data["temp"] - KelvinOffset
        feels_like_c == weather_data["feels_like"] - KelvinOffset
        wind_kmh == ToKmh(weather_data["wind_speed"])
    IN  IF AirRule(weather_data, air_quality_category)
            THEN AirResult(weather_data, air_quality_category)
        ELSE IF ExtremeTempRule(temp_c, feels_like_c)
            THEN ExtremeTempResult(temp_c, feels_like_c)
        ELSE IF PrecipRule(weather_data) THEN PrecipResult(weather_data)
        ELSE IF WindRule(wind_kmh) THEN WindResult(wind_kmh)
        ELSE IF WarnTempRule(temp_c, feels_like_c)
            THEN WarnTempResult(temp_c, feels_like_c)
        ELSE GeneralResult

\* mutant: the wind test is wind_kmh >= 40
classify_weather_wind_inclusive(weather_data, air_quality_category) ==
    LET temp_c == weather_data["temp"] - KelvinOffset
        feels_like_c == weather_data["feels_like"] - KelvinOffset
        wind_kmh == ToKmh(weather_data["wind_speed"])
    IN  IF AirRule(weather_data, air_quality_category)
            THEN AirResult(weather_data, air_quality_category)
        ELSE IF ExtremeTempRule(temp_c, feels_like_c)
            THEN ExtremeTempResult(temp_c, feels_like_c)
        ELSE IF wind_kmh >= WindLimit * 1000 THEN WindResult(wind_kmh)
        ELSE IF PrecipRule(weather_data) THEN PrecipResult(weather_data)
        ELSE IF WarnTempRule(temp_c, feels_like_c)
            THEN WarnTempResult(temp_c, feels_like_c)
        ELSE GeneralResult

classify_weather(weather_data, air_quality_category) ==
    LET temp_c == weather_data["temp"] - KelvinOffset
        feels_like_c == weather_data["feels_like"] - KelvinOffset
        wind_kmh == ToKmh(weather_data["wind_speed"])
    IN  IF AirRule(weather_data, air_quality_category)
            THEN AirResult(weather_data, air_quality_category)
        ELSE IF ExtremeTempRule(temp_c, feels_like_c)
            THEN ExtremeTempResult(temp_c, feels_like_c)
        ELSE IF WindRule(wind_kmh) THEN WindResult(wind_kmh)
        ELSE IF PrecipRule(weather_data) THEN PrecipResult(weather_data)
        ELSE IF WarnTempRule(temp_c, feels_like_c)
            THEN WarnTempResult(temp_c, feels_like_c)
        ELSE GeneralResult

-----------------------------------------------------------------------------
(* is_daytime, get_weather_data, get_air_quality *)

\* the success code of the weather provider
SuccessCod == 200
\* the defaults of get_weather_data: 293.15 K, humidity, clouds, visibility
DefaultTemp == 29315
DefaultHumidity == 50
DefaultClouds == 20
DefaultVisibility == 10000

EmptyDict == <<>>

\* sunrise <= current_time <= sunset, current_time being the clock's reading
is_daytime(sunrise, sunset, now) == sunrise <= now /\ now <= sunset

\* response.get("cod") != 200
CodFails(response) ==
    \/ "cod" \notin DOMAIN response
    \/ response["cod"] # SuccessCod

\* response.get("weather", [{}])
WeatherList(response) == Get(response, "weather", <<EmptyDict>>)

\* src/main.py
get_weather_data(response, now) ==
    IF CodFails(response) THEN Returned(None)
    ELSE LET rain == Get(Get(response, "rain", EmptyDict), "1h", 0)
             snow == Get(Get(response, "snow", EmptyDict), "1h", 0)
             sys == Get(response, "sys", EmptyDict)
             main == Get(response, "main", EmptyDict)
         IN  IF Len(WeatherList(response)) = 0 THEN Raised("IndexError")
             ELSE Returned(
               [temp |-> Get(main, "temp", DefaultTemp),
                feels_like |-> Get(main, "feels_like", DefaultTemp),
                wind_speed |-> Get(Get(response, "wind", EmptyDict), "speed", 0),
                humidity |-> Get(main, "humidity", DefaultHumidity),
                precipitation |-> rain + snow,
                clouds |-> Get(Get(response, "clouds", EmptyDict), "all", DefaultClouds),
                visibility |-> Get(response, "visibility", DefaultVisibility),
                weather_main |-> Get(WeatherList(response)[1], "main", "Clear"),
                description |-> Get(WeatherList(response)[1], "description", "Clear sky"),
                location |-> Get(response, "name", "Unknown"),
                country |-> Get(sys, "country", ""),
                is_day |-> is_daytime(Get(sys, "sunrise", 0), Get(sys, "sunset", 0), now)])

\* src/pet-weather-api/main.py: the copy that keeps eight fields
get_weather_data_api(response) ==
    IF CodFails(response) THEN Returned(None)
    ELSE LET rain == Get(Get(response, "rain", EmptyDict), "1h", 0)
             snow == Get(Get(response, "snow", EmptyDict), "1h", 0)
             main == Get(response, "main", EmptyDict)
         IN  IF Len(WeatherList(response)) = 0 THEN Raised("IndexError")
             ELSE Returned(
               [temp |-> Get(main, "temp", DefaultTemp),
                feels_like |-> Get(main, "feels_like", DefaultTemp),
                wind_speed |-> Get(Get(response, "wind", EmptyDict), "speed", 0),
                humidity |-> Get(main, "humidity", DefaultHumidity),
                precipitation |-> rain + snow,
                clouds |-> Get(Get(response, "clouds", EmptyDict), "all", DefaultClouds),
                visibility |-> Get(response, "visibility", DefaultVisibility),
                weather_main |-> Get(WeatherList(response)[1], "main", "Clear")])

ZeroReading == [p \in Pollutants |-> 0]

get_air_quality(response) ==
    IF "list" \notin DOMAIN response \/ Len(response["list"]) = 0
    THEN Returned(ZeroReading)
    ELSE IF "components" \notin DOMAIN response["list"][1]
    THEN Raised("KeyError")
    ELSE Returned([key \in Pollutants |->
                     Get(response["list"][1]["components"], key, 0)])

-----------------------------------------------------------------------------
(* check_weather *)

ErrorResult == [error |-> "Failed to fetch weather data."]

\* round(x, 1) of hundredths, and of thousandths: the result is in tenths
Round1Temp(c) == RoundDiv(c, 10)
Round1Kmh(m) == RoundDiv(m, 100)

\* classification.update({...})
Update(classification, weather_data, air_quality_category) ==
    [recommendation |-> classification.recommendation,
     triggered_by |-> classification.triggered_by,
     value |-> classification.value,
     location |-> weather_data["location"],
     country |-> weather_data["country"],
     temp |-> Round1Temp(weather_data["temp"] - KelvinOffset),
     feels_like |-> Round1Temp(weather_data["feels_like"] - KelvinOffset),
     description |-> weather_data["description"],
     main |-> weather_data["weather_main"],
     humidity |-> weather_data["humidity"],
     wind_speed |-> Round1Kmh(ToKmh(weather_data["wind_speed"])),
     air_quality |-> air_quality_category,
     is_day |-> weather_data["is_day"]]

\* src/main.py: both fetches come before the test of weather_data, and an
\* exception of either leaves the handler
check_weather(weather_response, air_response, now) ==
    LET weather_data == get_weather_data(weather_response, now)
        pollutants == get_air_quality(air_response)
    IN  IF weather_data.kind = "raise" THEN weather_data
        ELSE IF pollutants.kind = "raise" THEN pollutants
        ELSE IF weather_data.value = None THEN Returned(ErrorResult)
        ELSE LET air_quality_category == classify_air_quality(pollutants.value)
                 classification == classify_weather(weather_data.value, air_quality_category)
             IN  Returned(Update(classification, weather_data.value, air_quality_category))

\* src/pet-weather-api/main.py: the classification is returned as it is
check_weather_api(weather_response, air_response) ==
    LET weather_data == get_weather_data_api(weather_response)
        pollutants == get_air_quality(air_response)
    IN  IF weather_data.kind = "raise" THEN weather_data
        ELSE IF pollutants.kind = "raise" THEN pollutants
        ELSE IF weather_data.value = None THEN Returned(ErrorResult)
        ELSE Returned(classify_weather(weather_data.value,
                                       classify_air_quality(pollutants.value)))

\* which return of classify_air_quality a handler's call left through
HandlerExit(weather_data, pollutants) ==
    IF weather_data.kind = "raise" \/ pollutants.kind = "raise" THEN "-"
    ELSE IF weather_data.value = None THEN "-"
    ELSE classify_air_quality_run(pollutants.value).exit

-----------------------------------------------------------------------------
(* The inputs explored *)

\* Good, Fair, Moderate, Poor: the categories whose limits are finite
FiniteCategories == Len(Categories) - 1

\* the k-th probe concentration of pollutant p
Conc(p, k) ==
    IF k = 0 THEN 0
    ELSE IF k <= FiniteCategories THEN air_quality_matrix[Categories[k]][p].v
    ELSE air_quality_matrix[Categories[FiniteCategories]][p].v + (k - FiniteCategories)

\* readings by level, at most MaxActive pollutants above level 0
LevelReadings ==
    {[p \in Pollutants |-> IF p \in S THEN f[p] ELSE 0] :
        S \in KSubsets(Pollutants, MaxActive), f \in [Pollutants -> 1..MaxLevel]}

ReadingOf(levels) == [p \in Pollutants |-> Conc(p, levels[p])]

\* every pollutant present and below its first threshold
CleanReading ==
    [so2 |-> 5, no2 |-> 12, pm10 |-> 8, pm2_5 |-> 4, o3 |-> 30, co |-> 250]

Readings == {ReadingOf(l) : l \in LevelReadings} \cup {CleanReading}

TempGrid ==
    {KelvinOffset + lim * 100 + d :
        lim \in {ExtremeLow, WarnLow, WarnHigh, ExtremeHigh}, d \in (0 - Delta)..Delta}
    \cup {DefaultTemp}

\* 0, 11.0 m/s, 11.12 m/s, and the speeds around 40 km/h = 100/9 m/s
WindGrid ==
    {0, 11 * 900, (1112 * 900) \div 100}
    \cup {(WindLimit * 9000) \div 36 + d : d \in (0 - Delta)..Delta}

PrecipGrid == {0} \cup {PrecipLimit * 10 + d : d \in (0 - Delta)..Delta}

Nows == {0, 1500, 2500}

\* a complete weather payload
SamplePayload ==
    [cod |-> SuccessCod,
     main |-> [temp |-> 30015, feels_like |-> 30115, humidity |-> 60],
     wind |-> [speed |-> 4500],
     rain |-> ("1h" :> 12),
     snow |-> ("1h" :> 7),
     clouds |-> [all |-> 40],
     visibility |-> 8000,
     weather |-> <<[main |-> "Rain", description |-> "light rain"]>>,
     name |-> "Dublin",
     sys |-> [country |-> "IE", sunrise |-> 1000, sunset |-> 2000]]

Containers == {"main", "wind", "rain", "snow", "clouds", "sys"}

TopPaths == {<<k>> : k \in (DOMAIN SamplePayload) \ {"cod"}}

\* every optional path of the payload; <<"weather", "0">> is the first list element
Paths ==
    TopPaths
    \cup UNION {{<<c, k>> : k \in DOMAIN SamplePayload[c]} : c \in Containers}
    \cup {<<"weather", "0">>}
    \cup {<<"weather", "0", k>> : k \in DOMAIN SamplePayload["weather"][1]}

\* the payload without the paths in absent
Strip(payload, absent) ==
    [k \in {t \in DOMAIN payload : <<t>> \notin absent} |->
        IF k \in Containers
        THEN [j \in {u \in DOMAIN payload[k] : <<k, u>> \notin absent} |-> payload[k][j]]
        ELSE IF k = "weather"
        THEN IF <<"weather", "0">> \in absent THEN <<>>
             ELSE <<[j \in {u \in DOMAIN payload[k][1] : <<"weather", "0", u>> \notin absent}
                        |-> payload[k][1][j]]>>
        ELSE payload[k]]

AbsentSets == KSubsets(Paths, MaxAbsent) \cup {TopPaths}

\* the complete payload with one measurement moved over its grid
ValueVariants ==
    {[SamplePayload EXCEPT !["main"]["temp"] = t] : t \in TempGrid}
    \cup {[SamplePayload EXCEPT !["main"]["feels_like"] = t] : t \in TempGrid}
    \cup {[SamplePayload EXCEPT !["wind"]["speed"] = w] : w \in WindGrid}
    \cup {[SamplePayload EXCEPT !["rain"]["1h"] = r, !["snow"]["1h"] = n] :
            r \in PrecipGrid, n \in {0, 1}}

FailPayloads ==
    {[cod |-> 404, message |-> "city not found"],
     [cod |-> 401, message |-> "Invalid API key"],
     [message |-> "Internal error"],
     [SamplePayload EXCEPT !["cod"] = 500]}

WeatherPayloads ==
    FailPayloads \cup ValueVariants \cup {Strip(SamplePayload, a) : a \in AbsentSets}

WeatherCore ==
    {[cod |-> 404, message |-> "city not found"], [message |-> "Internal error"],
     SamplePayload, Strip(SamplePayload, {<<"weather", "0">>})}

Coord == [lat |-> 53, lon |-> 0 - 6]

AirOf(components) == [coord |-> Coord, list |-> <<[dt |-> 1, components |-> components]>>]

AirNoList == [coord |-> Coord]
AirEmptyList == [coord |-> Coord, list |-> <<>>]
AirNoComponents == [coord |-> Coord, list |-> <<[dt |-> 1]>>]

PoorSample == [ZeroReading EXCEPT !["pm2_5"] = 80]

AirPayloads ==
    {AirNoList, AirEmptyList, AirNoComponents}
    \cup {AirOf(r) : r \in Readings}
    \cup {AirOf(Restrict(PoorSample, S)) : S \in SUBSET Pollutants}
    \cup {AirOf(Restrict(CleanReading, S)) : S \in SUBSET Pollutants}

AirCore ==
    {AirNoList, AirEmptyList, AirNoComponents, AirOf(PoorSample), AirOf(CleanReading)}

HandlerInputs == (WeatherPayloads \X AirCore) \cup (WeatherCore \X AirPayloads)

-----------------------------------------------------------------------------
(* The service: one call of one function per step *)

Init ==
    /\ op = "idle"
    /\ args = <<>>
    /\ ret = <<>>
    /\ exit = "-"

ClassifyAirQuality ==
    /\ op = "idle"
    /\ \E pollutants \in Readings :
        /\ op' = "classify_air_quality"
        /\ args' = [pollutants |-> pollutants]
        /\ ret' = Returned(classify_air_quality(pollutants))
        /\ exit' = classify_air_quality_run(pollutants).exit

\* two calls, the second on a reading nowhere above the first
ClassifyAirQualityPair ==
    /\ op = "idle"
    /\ \E la \in LevelReadings :
       \E b1 \in 0..la["so2"], b2 \in 0..la["no2"], b3 \in 0..la["pm10"],
          b4 \in 0..la["pm2_5"], b5 \in 0..la["o3"], b6 \in 0..la["co"] :
        LET lb == [so2 |-> b1, no2 |-> b2, pm10 |-> b3, pm2_5 |-> b4, o3 |-> b5, co |-> b6]
        IN  /\ op' = "classify_air_quality_pair"
            /\ args' = [a |-> ReadingOf(la), b |-> ReadingOf(lb)]
            /\ ret' = [a |-> Returned(classify_air_quality(ReadingOf(la))),
                       b |-> Returned(classify_air_quality(ReadingOf(lb)))]
            /\ exit' = "-"

ClassifyWeather ==
    /\ op = "idle"
    /\ \E temp \in TempGrid, feels_like \in TempGrid, wind_speed \in WindGrid,
          precipitation \in PrecipGrid, c \in 1..Len(Categories) :
        LET weather_data == [temp |-> temp, feels_like |-> feels_like,
                             wind_speed |-> wind_speed, precipitation |-> precipitation]
        IN  /\ op' = "classify_weather"
            /\ args' = [weather_data |-> weather_data,
                        air_quality_category |-> Categories[c]]
            /\ ret' = Returned(classify_weather(weather_data, Categories[c]))
            /\ exit' = "-"

GetWeatherData ==
    /\ op = "idle"
    /\ \E response \in WeatherPayloads, now \in Nows :
        /\ op' = "get_weather_data"
        /\ args' = [response |-> response, now |-> now]
        /\ ret' = get_weather_data(response, now)
        /\ exit' = "-"

GetWeatherDataApi ==
    /\ op = "idle"
    /\ \E response \in WeatherPayloads :
        /\ op' = "get_weather_data_api"
        /\ args' = [response |-> response]
        /\ ret' = get_weather_data_api(response)
        /\ exit' = "-"

GetAirQuality ==
    /\ op = "idle"
    /\ \E response \in AirPayloads :
        /\ op' = "get_air_quality"
        /\ args' = [response |-> response]
        /\ ret' = get_air_quality(response)
        /\ exit' = "-"

CheckWeather ==
    /\ op = "idle"
    /\ \E in \in HandlerInputs, now \in Nows :
        /\ op' = "check_weather"
        /\ args' = [weather |-> in[1], air |-> in[2], now |-> now]
        /\ ret' = check_weather(in[1], in[2], now)
        /\ exit' = HandlerExit(get_weather_data(in[1], now), get_air_quality(in[2]))

CheckWeatherApi ==
    /\ op = "idle"
    /\ \E in \in HandlerInputs :
        /\ op' = "check_weather_api"
        /\ args' = [weather |-> in[1], air |-> in[2]]
        /\ ret' = check_weather_api(in[1], in[2])
        /\ exit' = HandlerExit(get_weather_data_api(in[1]), get_air_quality(in[2]))

Next ==
    \/ ClassifyAirQuality
    \/ ClassifyAirQualityPair
    \/ ClassifyWeather
    \/ GetWeatherData
    \/ GetWeatherDataApi
    \/ GetAirQuality
    \/ CheckWeather
    \/ CheckWeatherApi

Spec == Init /\ [][Next]_vars

-----------------------------------------------------------------------------
(* Claims *)

Rank(category) == CHOOSE i \in 1..Len(Categories) : Categories[i] = category

\* the finite categories of which some pollutant of the reading reaches the limit
ReachedBy(pollutants) ==
    {i \in 1..FiniteCategories :
        \E p \in Pollutants : pollutants[p] >= air_quality_matrix[Categories[i]][p].v}

BelowGood(pollutants) ==
    \A p \in Pollutants : pollutants[p] < air_quality_matrix["Good"][p].v

Handlers == {"check_weather", "check_weather_api"}

\* the reading a handler call classified
HandlerReading == get_air_quality(args.air)

\* C1: a reading that reaches some category's limit is classified as the worst
\* category of which a pollutant reaches the limit (pm2_5 = 25 is Fair)
C1_WorstReachedCategory ==
    (op = "classify_air_quality" /\ ReachedBy(args.pollutants) # {}) =>
        ret.value = Categories[CHOOSE i \in ReachedBy(args.pollutants) :
                                  \A j \in ReachedBy(args.pollutants) : j <= i]

\* C2 as stated: classify_air_quality always returns from inside its loop
C2_FallbackNeverReached ==
    (op = "classify_air_quality" \/ (op \in Handlers /\ exit # "-")) => exit = "loop"

\* C2 amended: the return after the loop is taken exactly by the readings in
\* which every pollutant is below its Good limit, and it gives Good
C2_FallbackIffBelowGood ==
    /\ op = "classify_air_quality" =>
          /\ (exit = "fallback") <=> BelowGood(args.pollutants)
          /\ exit = "fallback" => ret.value = "Good"
    /\ (op \in Handlers /\ exit # "-") =>
          ((exit = "fallback") <=> BelowGood(HandlerReading.value))

C2_Witness ==
    /\ op = "classify_air_quality"
    /\ args.pollutants = ZeroReading
    /\ exit = "fallback"
    /\ ret.value = "Good"

\* C3: a reading nowhere below another is classified no better than it
C3_Monotone ==
    (op = "classify_air_quality_pair"
        /\ \A p \in Pollutants : args.a[p] >= args.b[p]) =>
        Rank(ret.a.value) >= Rank(ret.b.value)

C3_Witness ==
    /\ op = "classify_air_quality_pair"
    /\ args.b = ZeroReading
    /\ args.a = [ZeroReading EXCEPT !["pm2_5"] = 75, !["o3"] = 60]
    /\ Rank(ret.a.value) >= Rank(ret.b.value)

\* C4: with category Poor or Very Poor the trigger is Air Pollution and the
\* value is the category, whatever the weather
C4_AirPollutionFirst ==
    (op = "classify_weather" /\ args.air_quality_category \in {"Poor", "Very Poor"}) =>
        /\ ret.value.triggered_by = "Air Pollution"
        /\ ret.value.value = [text |-> <<args.air_quality_category>>, nums |-> <<>>]

C4_Witness ==
    /\ op = "classify_weather"
    /\ args.air_quality_category = "Poor"
    /\ args.weather_data.temp > 30815
    /\ args.weather_data.wind_speed > 10000
    /\ args.weather_data.precipitation > 50
    /\ ret.value.triggered_by = "Air Pollution"

\* the rule chain of C5 over the raw arguments: the trigger and the label of
\* the first rule that holds
FirstRule(weather_data, category) ==
    LET t == weather_data.temp - 27315
        f == weather_data.feels_like - 27315
    IN  IF category = "Poor" \/ category = "Very Poor"
            THEN <<"Air Pollution", "Take Precaution (Air Quality: ">>
        ELSE IF t > 3500 \/ f > 3500 \/ t < 0 - 500 \/ f < 0 - 500
            THEN <<"Temperature", "Do Not Go Out (Extreme Temperature)">>
        ELSE IF weather_data.wind_speed * 36 > 40 * 9000
            THEN <<"Wind Speed", "Do Not Go Out (High Wind Speed)">>
        ELSE IF weather_data.precipitation > 50
            THEN <<"Precipitation", "Do Not Go Out (Heavy Rain/Snow)">>
        ELSE IF t > 3000 \/ f > 3000 \/ t < 0 \/ f < 0
            THEN <<"Temperature", "Take Precaution (Temperature Warning)">>
        ELSE <<"General Weather Conditions", "No Worries (Good Weather for a Walk)">>

\* C5: classify_weather returns the recommendation of the first rule that
\* holds in the order air quality, extreme temperature, wind, precipitation,
\* temperature warning, no worries
C5_FirstMatchWins ==
    op = "classify_weather" =>
        /\ ret.kind = "return"
        /\ ret.value.triggered_by =
              FirstRule(args.weather_data, args.air_quality_category)[1]
        /\ ret.value.recommendation[1] =
              FirstRule(args.weather_data, args.air_quality_category)[2]

\* high wind, heavy precipitation and a temperature in (30, 35]: Wind Speed
C5_Witness ==
    /\ op = "classify_weather"
    /\ args.air_quality_category = "Moderate"
    /\ args.weather_data.temp = 30316
    /\ args.weather_data.feels_like = 30316
    /\ args.weather_data.wind_speed = 10008
    /\ args.weather_data.precipitation = 51
    /\ ret.value.triggered_by = "Wind Speed"

\* C6: below Poor and with both temperatures in [-5, 35], the Wind Speed
\* recommendation is returned exactly when m/s * 3.6 > 40; 11.12 m/s gives it
\* with value 40.03, 11.0 m/s and exactly 40 km/h do not
C6_WindStrictlyAbove40 ==
    (op = "classify_weather"
        /\ args.air_quality_category \in {"Good", "Fair", "Moderate"}
        /\ args.weather_data.temp - 27315 \in (0 - 500)..3500
        /\ args.weather_data.feels_like - 27315 \in (0 - 500)..3500) =>
        /\ (ret.value.triggered_by = "Wind Speed")
              <=> (args.weather_data.wind_speed * 36 > 40 * 9000)
        /\ (ret.value.triggered_by = "Wind Speed") =>
              ret.value.recommendation = <<"Do Not Go Out (High Wind Speed)">>
        /\ args.weather_data.wind_speed * 100 = 1112 * 900 =>
              /\ ret.value.triggered_by = "Wind Speed"
              /\ ret.value.value.nums = <<4003>>
        /\ args.weather_data.wind_speed = 11 * 900 =>
              ret.value.triggered_by # "Wind Speed"
        /\ args.weather_data.wind_speed * 36 = 40 * 9000 =>
              ret.value.triggered_by # "Wind Speed"

\* exactly 40 km/h, nothing else in the way: no Wind Speed recommendation
C6_Witness ==
    /\ op = "classify_weather"
    /\ args.air_quality_category = "Good"
    /\ args.weather_data.temp = 29315
    /\ args.weather_data.feels_like = 29315
    /\ args.weather_data.wind_speed * 36 = 40 * 9000
    /\ args.weather_data.precipitation = 0
    /\ ret.value.triggered_by = "General Weather Conditions"

\* C7: a weather payload whose status is not 200 makes the handler return
\* exactly the error object, whatever the air-pollution payload
C7_ErrorOnlyOnWeatherFailure ==
    (op \in Handlers /\ CodFails(args.weather)) => ret = Returned(ErrorResult)

\* C8: get_air_quality returns, for every payload, a reading of all six
\* pollutants, 0 for each one the payload does not give
C8_AirQualityNeverFails ==
    op = "get_air_quality" =>
        /\ ret.kind = "return"
        /\ DOMAIN ret.value = Pollutants
        /\ \A key \in Pollutants :
              ret.value[key] =
                 IF /\ "list" \in DOMAIN args.response
                    /\ Len(args.response.list) > 0
                    /\ "components" \in DOMAIN args.response.list[1]
                    /\ key \in DOMAIN args.response.list[1].components
                 THEN args.response.list[1].components[key]
                 ELSE 0

\* C9: get_weather_data returns, for every payload of status 200, an
\* observation (with the documented default where a path is absent)
C9_WeatherDataNeverFails ==
    (op \in {"get_weather_data", "get_weather_data_api"}
        /\ ~CodFails(args.response)) =>
        /\ ret.kind = "return"
        /\ "main" \notin DOMAIN args.response =>
              /\ ret.value.temp = 29315
              /\ ret.value.feels_like = 29315
              /\ ret.value.humidity = 50
        /\ "wind" \notin DOMAIN args.response => ret.value.wind_speed = 0
        /\ ("rain" \notin DOMAIN args.response /\ "snow" \notin DOMAIN args.response)
              => ret.value.precipitation = 0
        /\ "clouds" \notin DOMAIN args.response => ret.value.clouds = 20
        /\ "visibility" \notin DOMAIN args.response => ret.value.visibility = 10000
        /\ ("weather" \notin DOMAIN args.response \/ Len(args.response.weather) = 0)
              => ret.value.weather_main = "Clear"
        /\ op = "get_weather_data" =>
              /\ ("weather" \notin DOMAIN args.response \/ Len(args.response.weather) = 0)
                    => ret.value.description = "Clear sky"
              /\ "name" \notin DOMAIN args.response => ret.value.location = "Unknown"
              /\ "sys" \notin DOMAIN args.response =>
                    /\ ret.value.country = ""
                    /\ ret.value.is_day = (0 <= args.now /\ args.now <= 0)

\* C10: a handler call that classifies a reading gets Good, so its
\* recommendation is never triggered by Air Pollution and is the one the rules
\* give under Good
C10_PipelineCategoryAlwaysGood ==
    (op \in Handlers /\ ret.kind = "return" /\ "error" \notin DOMAIN ret.value) =>
        /\ ret.value.triggered_by # "Air Pollution"
        /\ ret.value.triggered_by =
              FirstRule(IF op = "check_weather"
                        THEN get_weather_data(args.weather, args.now).value
                        ELSE get_weather_data_api(args.weather).value, "Good")[1]
        /\ op = "check_weather" => ret.value.air_quality = "Good"

\* a reading with pm2_5 = 80 in calm weather is echoed as Good
C10_Witness ==
    /\ op = "check_weather"
    /\ args.weather = SamplePayload
    /\ args.air = AirOf(PoorSample)
    /\ ret.kind = "return"
    /\ ret.value.air_quality = "Good"
    /\ ret.value.triggered_by = "General Weather Conditions"

=============================================================================
